---- MODULE Spec2Model ----
(***************************************************************************)
(* Model of the authenticated HTTP client of pulse-pms (src/app/lib/api.ts)*)
(* and of the session operations of the AuthProvider that share its        *)
(* cookies.  One step of the model is one task of the browser event loop   *)
(* together with the microtasks it schedules: the arrival of a response,   *)
(* the firing of a timer, a call made by page code.                        *)
(***************************************************************************)
EXTENDS Integers, Sequences, FiniteSets, TLC

\* ---- bounds ----
\* callers (fetchWithAuth requests and direct refreshToken calls) in one run
NumProcs == 2
\* 401 and 5xx answers the server gives in one run of Spec
MaxUnauthorized == 2
MaxServerErrors == 1
\* 401 and 5xx answers the server gives in one run of SpecRetry
MaxRetryUnauthorized == 3
MaxRetryServerErrors == 3
\* login() calls in one run of SpecPages
MaxLogins == 2

\* ---- program constants ----
MAX_RETRIES == 2

Procs == 1..NumProcs
Statuses == {200, 401, 403, 500}
RetryStatuses == Statuses \cup {404, 503}
\* the answers to concurrent callers: success, the status that starts a refresh and the one
\* that starts a retry, and success bodies that parse; the other answers are those of the
\* specifications of one request
SharedStatuses == {200, 401, 500}
SharedParses == {TRUE}

\* outcomes of the call to /auth/refresh
RefreshFailures == {"HttpError", "NetError", "Timeout"}

VARIABLES
    cookies,            \* the four session entries (accessToken 0 = absent)
    refreshInProgress,  \* the single-flight marker: 0 = null, else the id of the pending promise
    refreshSeq,         \* number of network calls to /auth/refresh started so far
    inflight,           \* the network calls to /auth/refresh now in flight: id -> the callers
                        \* awaiting that call's promise, in order of arrival
    location,           \* window.location.href
    pc,                 \* position of each caller
    retries,            \* the retries argument of the current fetchWithAuth invocation
    aborted,            \* controller.signal.aborted of the current invocation
    calls,              \* fetch() calls issued for the logical request
    resps,              \* statuses received by the logical request, in order
    result,             \* how the caller's promise settled
    refreshCalls,       \* refreshToken invocations made by the logical request
    attemptRefreshes,   \* refreshToken invocations made by the current invocation
    attemptReissues,    \* re-issued calls made by the current invocation
    got,                \* what the caller's last refreshToken call returned to it
    lastRefresh,        \* the last refreshToken outcome: what ended it, what it returned, the
                        \* session entries at that moment, and the entries as each awaiting
                        \* caller found them when it resumed
    concurrent,         \* whether the first calls of all callers were in flight together
    budget,             \* how many 401 and 5xx answers the server may still give
    delays,             \* the backoff delays (ms) each request has waited or is waiting
    page,               \* the last page request of the browser: its path, the access token
                        \* cookie it carried, and what the middleware answered
    user,               \* the user of the AuthProvider: TRUE when a user is set
    logins,             \* the outcomes of the login() calls so far (TRUE = returned normally)
    options,            \* the options argument of each request: the kind of body and the
                        \* caller's headers
    sent,               \* the headers of the network call each request has in flight
    errorBody,          \* the body the server attaches to the error response that ends each
                        \* request
    message,            \* the message of the error each request failed with on a response
                        \* that is not ok
    loading,            \* the loading state of the AuthProvider
    view,               \* the page component mounted under the AuthProvider: its route,
                        \* whether its first effects have run, the isAuthenticated value
                        \* its authorization effect last ran with, the type of the user,
                        \* and the router.push calls of that effect
    staff,              \* the employees page: the user EmployeeList got from useAuth, the
                        \* employee as the server holds it, the type last given to
                        \* createEmployee or updateEmployee and the type sent for it, the
                        \* type getEmployees returned, whether the row is rendered, and
                        \* what canEditEmployee and canDeleteEmployee returned for it
    entryList           \* the PatientEntryList: its filters, the fetchEntries requests
                        \* issued and outstanding, the request whose response it shows,
                        \* currentPage, loading, and the requests that failed

vars == <<cookies, refreshInProgress, refreshSeq, inflight, location, pc, retries,
          aborted, calls, resps, result, refreshCalls, attemptRefreshes, attemptReissues,
          got, lastRefresh, concurrent, budget, delays, page, user, logins, options, sent,
          errorBody, message, loading, view, staff, entryList>>

refreshVars == <<refreshInProgress, refreshSeq, inflight>>
reqVars == <<retries, aborted, calls, resps, attemptRefreshes, attemptReissues>>
obsVars == <<refreshCalls, got, lastRefresh>>
uiVars == <<loading, view, staff, entryList>>

\* ---- session entries ----
NoCookies == [accessToken |-> 0, refreshToken |-> FALSE, userData |-> FALSE, loginTime |-> FALSE]

AllAbsent(c) == c = NoCookies

\* the session a login leaves behind, the same with the refresh cookie gone, and no session
FullSession == [accessToken |-> 1, refreshToken |-> TRUE, userData |-> TRUE, loginTime |-> TRUE]
InitialSessions == {FullSession, [FullSession EXCEPT !.refreshToken = FALSE], NoCookies}

\* (mutant) the userData cookie is left behind
NoTokenCleanupPartial(c) == [c EXCEPT !.accessToken = 0]

\* refreshToken, no refresh cookie: Cookies.remove('accessToken'); Cookies.remove('userData')
NoTokenCleanup(c) == [c EXCEPT !.accessToken = 0, !.userData = FALSE]

\* (mutant) the loginTime cookie is left behind
RefreshClearPartial(c) == [c EXCEPT !.accessToken = 0, !.refreshToken = FALSE, !.userData = FALSE]

\* the four Cookies.remove calls of refreshToken's catch block
RefreshClear(c) == [c EXCEPT !.accessToken = 0, !.refreshToken = FALSE,
                             !.userData = FALSE, !.loginTime = FALSE]

\* (mutant) the loginTime cookie is left behind
AuthFailClearPartial(c) == [c EXCEPT !.accessToken = 0, !.refreshToken = FALSE,
                                     !.userData = FALSE]

\* the four Cookies.remove calls of fetchWithAuth's inner catch block
AuthFailClear(c) == [c EXCEPT !.accessToken = 0, !.refreshToken = FALSE,
                              !.userData = FALSE, !.loginTime = FALSE]

\* AuthProvider.logout
LogoutClear(c) == [c EXCEPT !.userData = FALSE, !.accessToken = 0,
                            !.refreshToken = FALSE, !.loginTime = FALSE]

\* ---- refreshToken ----
\* (mutant) the pending refresh is not looked at
RefreshPendingNever(marker) == FALSE

\* if (refreshInProgress)
RefreshPending(marker) == marker # 0

\* if (!refreshTokenStr)
NoRefreshCookie(c) == ~c.refreshToken

\* (mutant) the catch block removes nothing
RefreshCatchKeeps(c, failure) == c

\* the catch block of the refresh promise: a timeout is rethrown before the cookies are removed
RefreshCatch(c, failure) == IF failure = "Timeout" THEN c ELSE RefreshClear(c)

\* the error the refresh promise rejects with
RefreshError(failure) == IF failure = "Timeout" THEN "AuthTimedOut" ELSE failure

\* (mutant) the marker is not reset
MarkerKept(marker) == marker

\* the finally block of the refresh promise
MarkerAfterSettle(marker) == 0

NoOutcome == [kind |-> "none", val |-> 0, err |-> "none"]
TokenOutcome(t) == [kind |-> "token", val |-> t, err |-> "none"]
ErrorOutcome(e) == [kind |-> "error", val |-> 0, err |-> e]

\* ---- request headers ----
\* options.body is a FormData or a JSON text; options.headers may name a Content-Type, under
\* the key 'Content-Type' or under another spelling of it (a Headers object lists its keys
\* in lower case), and an Authorization of the caller's own
Bodies == {"json", "formData"}
CallerHeaders == [contentType : {"none", "Content-Type", "content-type"},
                  authorization : BOOLEAN]
OptionSet == [body : Bodies, headers : CallerHeaders]
DefaultOptions == [body |-> "json", headers |-> [contentType |-> "none", authorization |-> FALSE]]

\* the headers of a network call: the values sent under each name, in order.  An
\* Authorization value t > 0 is 'Bearer <token t>', 0 is the empty text, -1 is the value the
\* caller supplied.
NoHeaders == [authorization |-> << >>, contentType |-> << >>]

\* (mutant) the caller's Content-Type is ignored
buildHeadersFixedType(token, existingHeaders) ==
    [contentType |-> <<"application/json">>,
     authorization |-> IF token # 0 THEN <<token>>
                       ELSE IF existingHeaders.authorization THEN <<-1>> ELSE << >>]

\* buildHeaders(token, existingHeaders): the default Content-Type, then the caller's
\* headers key by key (the same key replaces, another spelling adds a second entry, which
\* fetch sends joined to the first), then the Authorization if there is a token
buildHeaders(token, existingHeaders) ==
    [contentType |-> IF existingHeaders.contentType = "Content-Type" THEN <<"text/plain">>
                     ELSE IF existingHeaders.contentType = "content-type"
                          THEN <<"application/json", "text/plain">>
                     ELSE <<"application/json">>,
     authorization |-> IF token # 0 THEN <<token>>
                       ELSE IF existingHeaders.authorization THEN <<-1>> ELSE << >>]

\* isFormData ? { 'Authorization': token ? `Bearer ${token}` : '' } : buildHeaders(...)
RequestHeaders(opts, token) ==
    IF opts.body = "formData"
    THEN [authorization |-> <<token>>, contentType |-> << >>]
    ELSE buildHeaders(token, opts.headers)

\* isFormData ? { 'Authorization': `Bearer ${newToken}` } : buildHeaders(newToken, ...)
RefreshedHeaders(opts, newToken) ==
    IF opts.body = "formData"
    THEN [authorization |-> <<newToken>>, contentType |-> << >>]
    ELSE buildHeaders(newToken, opts.headers)

\* the message of a failure: none so far
NoMessage == [text |-> "none", status |-> 0]

\* ---- middleware ----
\* request.nextUrl.pathname, as its sequence of segments: << >> is '/'
RootPath == << >>
LoginPath == <<"login">>
DashboardPath == <<"dashboard">>
Paths == {RootPath, LoginPath, DashboardPath, <<"dashboard", "employees">>,
          <<"tests">>, <<"branches">>}

\* config.matcher: ['/', '/dashboard/:path*', '/login']
Matcher(path) ==
    \/ path = RootPath
    \/ Len(path) >= 1 /\ path[1] = "dashboard"
    \/ path = LoginPath

PassThrough == [kind |-> "next", to |-> << >>]
Redirect(path) == [kind |-> "redirect", to |-> path]

\* the middleware without a public path: /login is guarded like every other path
middlewareNoPublicPath(path, token) ==
    IF token = 0 THEN Redirect(LoginPath) ELSE PassThrough

\* middleware(request); token is the accessToken cookie of the request, 0 when the cookie
\* is absent or empty (request.cookies.get('accessToken')?.value || '')
middleware(path, token) ==
    LET isPublicPath == path = LoginPath
    IN IF isPublicPath /\ token # 0 THEN Redirect(DashboardPath)
       ELSE IF ~isPublicPath /\ token = 0 THEN Redirect(LoginPath)
       ELSE PassThrough

NoPage == [path |-> << >>, token |-> 0, response |-> [kind |-> "none", to |-> << >>]]

\* ---- the pages with an authorization effect ----
EmployeeTypes == {"Organization Head", "Organization Partner", "Branch Admin",
                  "Receptionist", "Reporting Doctor", "Home testing person"}

GuardedPages == {"branches", "tests", "employees"}

\* the types the second test of each page's authorization effect lets stay
PageTypes(route) ==
    IF route = "branches" THEN {"Organization Head", "Organization Partner"}
    ELSE {"Organization Head", "Organization Partner", "Branch Admin"}

NoPush == << >>

\* the "Check authorization" effect of BranchesPage, TestsPage and EmployeesPage: the
\* router.push calls it makes; it reads user and isAuthenticated and never loading
AuthorizationEffect(route, isAuthenticated, type) ==
    IF ~isAuthenticated THEN <<LoginPath>>
    ELSE IF type \notin PageTypes(route) THEN <<DashboardPath>>
    ELSE NoPush

\* ---- the employees page: employeeService and EmployeeList ----
MaxEmployeeId == 2

EMPLOYEE_TYPE_MAPPING ==
    [display \in {"Organization Partner", "Branch Admin", "Receptionist", "Reporting Doctor",
                  "Home testing person"} |->
        CASE display = "Organization Partner" -> "ORGANIZATION_PARTNER"
          [] display = "Branch Admin" -> "BRANCH_ADMIN"
          [] display = "Receptionist" -> "RECEPTIONIST"
          [] display = "Reporting Doctor" -> "REPORTING_DOCTOR"
          [] display = "Home testing person" -> "HOME_TESTING_PERSON"]

\* (mutant) the table before REPORTING_DOCTOR was added to it
BACKEND_TYPE_MAPPING_DOCTOR ==
    [key \in {"ORGANIZATION_PARTNER", "BRANCH_ADMIN", "RECEPTIONIST", "DOCTOR",
              "HOME_TESTING_PERSON"} |->
        CASE key = "ORGANIZATION_PARTNER" -> "Organization Partner"
          [] key = "BRANCH_ADMIN" -> "Branch Admin"
          [] key = "RECEPTIONIST" -> "Receptionist"
          [] key = "DOCTOR" -> "Reporting Doctor"
          [] key = "HOME_TESTING_PERSON" -> "Home testing person"]

BACKEND_TYPE_MAPPING ==
    [key \in {"ORGANIZATION_PARTNER", "BRANCH_ADMIN", "RECEPTIONIST", "DOCTOR",
              "REPORTING_DOCTOR", "HOME_TESTING_PERSON"} |->
        CASE key = "ORGANIZATION_PARTNER" -> "Organization Partner"
          [] key = "BRANCH_ADMIN" -> "Branch Admin"
          [] key = "RECEPTIONIST" -> "Receptionist"
          [] key = "DOCTOR" -> "Reporting Doctor"
          [] key = "REPORTING_DOCTOR" -> "Reporting Doctor"
          [] key = "HOME_TESTING_PERSON" -> "Home testing person"]

\* table[type] || type (every value of the two tables is a non-empty string)
MappedType(table, type) == IF type \in DOMAIN table THEN table[type] ELSE type

\* the types the form hands to createEmployee and updateEmployee: the display names, a
\* backend key, and a type of neither table
FormTypes == EmployeeTypes \cup {"DOCTOR", "Lab Technician"}

\* the types the server holds: the backend keys, the display name of the Organization Head
\* (the type canEditEmployee looks for), and a type of neither table
ServerTypes == DOMAIN BACKEND_TYPE_MAPPING \cup {"Organization Head", "Lab Technician"}

EmployeeIds == 1 .. MaxEmployeeId
NoUser == [id |-> 0, type |-> "none"]
Users == [id : EmployeeIds, type : EmployeeTypes]

\* (mutant) the test of the employee's id is missing
canEditEmployeeSelf(currentUser, employee) ==
    IF currentUser = NoUser THEN FALSE
    ELSE IF employee.type = "Organization Head" THEN FALSE
    ELSE IF currentUser.type = "Organization Head" THEN TRUE
    ELSE IF currentUser.type = "Organization Partner"
         THEN employee.type \in {"Branch Admin", "Receptionist", "Reporting Doctor",
                                 "Home testing person"}
    ELSE IF currentUser.type = "Branch Admin"
         THEN employee.type \in {"Receptionist", "Reporting Doctor", "Home testing person"}
    ELSE FALSE

\* canEditEmployee(employee), with the user of useAuth() as currentUser
canEditEmployee(currentUser, employee) ==
    IF currentUser = NoUser THEN FALSE
    ELSE IF employee.type = "Organization Head" THEN FALSE
    ELSE IF employee.id = currentUser.id THEN FALSE
    ELSE IF currentUser.type = "Organization Head" THEN TRUE
    ELSE IF currentUser.type = "Organization Partner"
         THEN employee.type \in {"Branch Admin", "Receptionist", "Reporting Doctor",
                                 "Home testing person"}
    ELSE IF currentUser.type = "Branch Admin"
         THEN employee.type \in {"Receptionist", "Reporting Doctor", "Home testing person"}
    ELSE FALSE

\* canDeleteEmployee(employee)
canDeleteEmployee(currentUser, employee) == canEditEmployee(currentUser, employee)

NoType == ""
NoStaff == [currentUser |-> NoUser, id |-> 1, server |-> NoType, form |-> NoType,
            body |-> NoType, listed |-> NoType, rendered |-> FALSE, canEdit |-> FALSE,
            canDelete |-> FALSE]

\* ---- PatientEntryList ----
MaxFetches == 3
MaxPage == 2

EntryFilters == {"all", "waiting"}
EntryPages == 1 .. MaxPage

\* no fetchEntries request: nothing is shown before the first response
NoRequest == [seq |-> 0, filters |-> "all", page |-> 1]

\* useState([]), useState(false), useState(1): the component before its first effect
NoEntryList == [filters |-> "all", issued |-> NoRequest, outstanding |-> {},
                shown |-> NoRequest, currentPage |-> 1, loading |-> FALSE, failed |-> {}]

NoView == [route |-> "none", mounted |-> FALSE, isAuthenticated |-> FALSE,
           type |-> "Organization Head", pushed |-> << >>]

InitCommon ==
    /\ entryList = NoEntryList
    /\ loading = FALSE
    /\ view = NoView
    /\ cookies \in InitialSessions
    /\ refreshInProgress = 0
    /\ refreshSeq = 0
    /\ inflight = << >>
    /\ location = "app"
    /\ pc = [p \in Procs |-> "idle"]
    /\ retries = [p \in Procs |-> 0]
    /\ aborted = [p \in Procs |-> FALSE]
    /\ calls = [p \in Procs |-> 0]
    /\ resps = [p \in Procs |-> << >>]
    /\ result = [p \in Procs |-> "none"]
    /\ refreshCalls = [p \in Procs |-> 0]
    /\ attemptRefreshes = [p \in Procs |-> 0]
    /\ attemptReissues = [p \in Procs |-> 0]
    /\ got = [p \in Procs |-> NoOutcome]
    /\ lastRefresh = [cause |-> "none", outcome |-> NoOutcome, atSettle |-> NoCookies, views |-> {}]
    /\ concurrent = FALSE
    /\ delays = [p \in Procs |-> << >>]
    /\ page = NoPage
    /\ user = cookies.userData
    /\ logins = << >>
    /\ sent = [p \in Procs |-> NoHeaders]
    /\ message = [p \in Procs |-> NoMessage]

\* ---- helpers over the callers' state ----
\* callers are interchangeable: they are numbered in the order in which they start
StartsNext(p) == \A q \in Procs : q < p => pc[q] # "idle"

FirstCallOut(q) == pc[q] = "fetch" /\ calls[q] = 1 /\ retries[q] = 0

\* (mutant) client errors are retried as well
RetriableAnyError(status, n) == status >= 400 /\ n < MAX_RETRIES

\* (mutant) one retry too many
RetriableOnceMore(status, n) == status >= 500 /\ n <= MAX_RETRIES

\* response.status >= 500 && retries < MAX_RETRIES (response.ok is false for every status >= 500)
Retriable(status, n) == status >= 500 /\ n < MAX_RETRIES

\* response.ok
IsOk(status) == status >= 200 /\ status <= 299

\* if (response.status === 401)
NeedsRefresh(status) == status = 401

\* Math.min(1000 * (2 ** retries), 10000)
Min(a, b) == IF a <= b THEN a ELSE b

\* (mutant) the delay grows with the counter instead of doubling
BackoffLinear(n) == Min(1000 * n, 10000)

Backoff(n) == Min(1000 * (2 ^ n), 10000)

\* await new Promise(resolve => setTimeout(resolve, backoffTime)): the delays of the
\* logical request so far, with the one now scheduled
Delayed(ds, status, n) == IF Retriable(status, n) THEN Append(ds, Backoff(n)) ELSE ds

\* the server's answers within the bounds of the model
MayAnswer(status) ==
    /\ status = 401 => budget.unauthorized > 0
    /\ status >= 500 => budget.serverError > 0

Answer(status) ==
    [unauthorized |-> budget.unauthorized - (IF status = 401 THEN 1 ELSE 0),
     serverError |-> budget.serverError - (IF status >= 500 THEN 1 ELSE 0)]

\* (mutant) a 401 on the re-issued call starts the invocation over
AfterResponseLoops(status, n) ==
    IF status = 401 THEN "fetch"
    ELSE IF status >= 500 /\ n < MAX_RETRIES THEN "backoff"
    ELSE IF ~(status >= 200 /\ status <= 299) THEN "done"
    ELSE "body"

\* (mutant) the next attempt does not wait for the backoff delay
AfterResponseNoWait(status, n) ==
    IF status >= 500 /\ n < MAX_RETRIES THEN "fetch"
    ELSE IF ~(status >= 200 /\ status <= 299) THEN "done"
    ELSE "body"

\* where fetchWithAuth goes after the 401 block, given the status of its (last) response
AfterResponse(status, n) ==
    IF Retriable(status, n) THEN "backoff"
    ELSE IF ~IsOk(status) THEN "done"
    ELSE "body"

ResultAfterResponse(status, n) ==
    IF Retriable(status, n) THEN "none"
    ELSE IF ~IsOk(status) THEN "ApiError"
    ELSE "none"

\* ---- the error of a response that is not ok ----
\* the body of the error response: a JSON object with a message, with an empty message or
\* with none, a text that is not JSON, or the JSON value null
ErrorBodies == {"Message", "EmptyMessage", "NoMessage", "Unparseable", "Null"}
DefaultErrorBody == "NoMessage"

\* await response.json().catch(() => ({})): what errorData is
ErrorData(body) == IF body = "Unparseable" THEN "NoMessage" ELSE body

\* new Error(errorData.message || `API error: ${response.status}`); reading .message of
\* null throws a TypeError instead
ErrorThrown(status, body) ==
    IF ErrorData(body) = "Null" THEN [text |-> "TypeError", status |-> 0]
    ELSE IF ErrorData(body) = "Message" THEN [text |-> "server message", status |-> 0]
    ELSE [text |-> "API error", status |-> status]

\* how fetchWithAuth settles on the response, and with which message
SettledAfterResponse(status, n, body) ==
    IF ResultAfterResponse(status, n) = "ApiError" /\ ErrorThrown(status, body).text = "TypeError"
    THEN "TypeError"
    ELSE ResultAfterResponse(status, n)

MessageAfterResponse(status, n, body) ==
    IF ResultAfterResponse(status, n) = "ApiError" THEN ErrorThrown(status, body)
    ELSE NoMessage

\* ---- fetchWithAuth ----
\* a page calls fetchWithAuth(endpoint, options): the first network call is issued
StartFetch(p) ==
    /\ pc[p] = "idle"
    /\ StartsNext(p)
    /\ pc' = [pc EXCEPT ![p] = "fetch"]
    /\ calls' = [calls EXCEPT ![p] = 1]
    /\ sent' = [sent EXCEPT ![p] = RequestHeaders(options[p], cookies.accessToken)]
    /\ concurrent' = (concurrent \/ \A q \in Procs \ {p} : FirstCallOut(q))
    /\ UNCHANGED <<cookies, refreshVars, location, retries, aborted, resps, result,
                   attemptRefreshes, attemptReissues, obsVars, budget, delays, page, user,
                   logins, options, errorBody, message, uiVars>>

\* the first call of an invocation answers with a status other than 401
Respond(p, status) ==
    /\ pc[p] = "fetch"
    /\ MayAnswer(status)
    /\ budget' = Answer(status)
    /\ ~NeedsRefresh(status)
    /\ resps' = [resps EXCEPT ![p] = Append(@, status)]
    /\ pc' = [pc EXCEPT ![p] = AfterResponse(status, retries[p])]
    /\ result' = [result EXCEPT ![p] = SettledAfterResponse(status, retries[p], errorBody[p])]
    /\ message' = [message EXCEPT ![p] = MessageAfterResponse(status, retries[p], errorBody[p])]
    /\ delays' = [delays EXCEPT ![p] = Delayed(@, status, retries[p])]
    /\ sent' = [sent EXCEPT ![p] = NoHeaders]
    /\ UNCHANGED <<cookies, refreshVars, location, retries, aborted, calls,
                   attemptRefreshes, attemptReissues, obsVars, concurrent, page, user,
                   logins, options, errorBody, uiVars>>

\* 401, and refreshToken finds a refresh pending: the caller awaits that promise
Respond401Join(p) ==
    /\ pc[p] = "fetch"
    /\ MayAnswer(401)
    /\ budget' = Answer(401)
    /\ RefreshPending(refreshInProgress)
    /\ resps' = [resps EXCEPT ![p] = Append(@, 401)]
    /\ pc' = [pc EXCEPT ![p] = "refresh"]
    /\ inflight' = IF refreshInProgress \in DOMAIN inflight
                   THEN [inflight EXCEPT ![refreshInProgress] = Append(@, p)]
                   ELSE inflight
    /\ got' = [got EXCEPT ![p] = NoOutcome]
    /\ refreshCalls' = [refreshCalls EXCEPT ![p] = @ + 1]
    /\ attemptRefreshes' = [attemptRefreshes EXCEPT ![p] = @ + 1]
    /\ sent' = [sent EXCEPT ![p] = NoHeaders]
    /\ UNCHANGED <<cookies, refreshInProgress, refreshSeq, location, retries, aborted,
                   calls, result, attemptReissues, lastRefresh, concurrent, delays, page,
                   user, logins, options, errorBody, message, uiVars>>

\* 401, no refresh pending and a refresh cookie: refreshToken issues the call to /auth/refresh
Respond401Start(p) ==
    /\ pc[p] = "fetch"
    /\ MayAnswer(401)
    /\ budget' = Answer(401)
    /\ ~RefreshPending(refreshInProgress)
    /\ ~NoRefreshCookie(cookies)
    /\ resps' = [resps EXCEPT ![p] = Append(@, 401)]
    /\ pc' = [pc EXCEPT ![p] = "refresh"]
    /\ refreshSeq' = refreshSeq + 1
    /\ refreshInProgress' = refreshSeq + 1
    /\ inflight' = (refreshSeq + 1 :> <<p>>) @@ inflight
    /\ got' = [got EXCEPT ![p] = NoOutcome]
    /\ refreshCalls' = [refreshCalls EXCEPT ![p] = @ + 1]
    /\ attemptRefreshes' = [attemptRefreshes EXCEPT ![p] = @ + 1]
    /\ sent' = [sent EXCEPT ![p] = NoHeaders]
    /\ UNCHANGED <<cookies, location, retries, aborted, calls, result, attemptReissues,
                   lastRefresh, concurrent, delays, page, user, logins, options, errorBody,
                   message, uiVars>>

\* 401, no refresh pending and no refresh cookie: refreshToken throws, the inner catch runs
Respond401NoToken(p) ==
    /\ pc[p] = "fetch"
    /\ MayAnswer(401)
    /\ budget' = Answer(401)
    /\ ~RefreshPending(refreshInProgress)
    /\ NoRefreshCookie(cookies)
    /\ resps' = [resps EXCEPT ![p] = Append(@, 401)]
    /\ got' = [got EXCEPT ![p] = ErrorOutcome("NoRefreshToken")]
    /\ lastRefresh' = [cause |-> "NoCookie", outcome |-> ErrorOutcome("NoRefreshToken"),
                       atSettle |-> NoTokenCleanup(cookies),
                       views |-> {NoTokenCleanup(cookies)}]
    /\ refreshCalls' = [refreshCalls EXCEPT ![p] = @ + 1]
    /\ attemptRefreshes' = [attemptRefreshes EXCEPT ![p] = @ + 1]
    /\ cookies' = AuthFailClear(NoTokenCleanup(cookies))
    /\ location' = "/login"
    /\ pc' = [pc EXCEPT ![p] = "done"]
    /\ result' = [result EXCEPT ![p] = "AuthFailed"]
    /\ sent' = [sent EXCEPT ![p] = NoHeaders]
    /\ UNCHANGED <<refreshVars, retries, aborted, calls, attemptReissues, concurrent,
                   delays, page, user, logins, options, errorBody, message, uiVars>>

\* the re-issued call answers: no second refresh, whatever the status
RespondReissue(p, status) ==
    /\ pc[p] = "refetch"
    /\ MayAnswer(status)
    /\ budget' = Answer(status)
    /\ resps' = [resps EXCEPT ![p] = Append(@, status)]
    /\ pc' = [pc EXCEPT ![p] = AfterResponse(status, retries[p])]
    /\ result' = [result EXCEPT ![p] = SettledAfterResponse(status, retries[p], errorBody[p])]
    /\ message' = [message EXCEPT ![p] = MessageAfterResponse(status, retries[p], errorBody[p])]
    /\ delays' = [delays EXCEPT ![p] = Delayed(@, status, retries[p])]
    /\ sent' = [sent EXCEPT ![p] = NoHeaders]
    /\ UNCHANGED <<cookies, refreshVars, location, retries, aborted, calls,
                   attemptRefreshes, attemptReissues, obsVars, concurrent, page, user,
                   logins, options, errorBody, uiVars>>

\* fetch rejects (network failure) on the first call: the outer catch rethrows
NetworkError(p) ==
    /\ pc[p] = "fetch"
    /\ pc' = [pc EXCEPT ![p] = "done"]
    /\ result' = [result EXCEPT ![p] = "NetworkError"]
    /\ sent' = [sent EXCEPT ![p] = NoHeaders]
    /\ UNCHANGED <<cookies, refreshVars, location, reqVars, obsVars, concurrent, budget,
                   delays, page, user, logins, options, errorBody, message, uiVars>>

\* fetch rejects on the re-issued call, which is inside the inner try
NetworkErrorReissue(p) ==
    /\ pc[p] = "refetch"
    /\ cookies' = AuthFailClear(cookies)
    /\ location' = "/login"
    /\ pc' = [pc EXCEPT ![p] = "done"]
    /\ result' = [result EXCEPT ![p] = "AuthFailed"]
    /\ sent' = [sent EXCEPT ![p] = NoHeaders]
    /\ UNCHANGED <<refreshVars, reqVars, obsVars, concurrent, budget, delays, page, user,
                   logins, options, errorBody, message, uiVars>>

\* (mutant) the first call is inside the inner try as well
InInnerTryAlways(position) == TRUE

\* whether a fetch awaited at this position is inside the inner try of the 401 block
InInnerTry(position) == position = "refetch"

\* the invocation's timer fires: controller.abort()
Timeout(p) ==
    /\ pc[p] \in {"fetch", "refresh", "refetch"}
    /\ ~aborted[p]
    /\ aborted' = [aborted EXCEPT ![p] = TRUE]
    /\ pc' = [pc EXCEPT ![p] = IF pc[p] \in {"fetch", "refetch"} THEN "done" ELSE @]
    /\ result' = [result EXCEPT ![p] = IF pc[p] \notin {"fetch", "refetch"} THEN @
                                       ELSE IF InInnerTry(pc[p]) THEN "AuthFailed"
                                       ELSE "TimedOut"]
    /\ cookies' = IF pc[p] \in {"fetch", "refetch"} /\ InInnerTry(pc[p])
                  THEN AuthFailClear(cookies) ELSE cookies
    /\ location' = IF pc[p] \in {"fetch", "refetch"} /\ InInnerTry(pc[p])
                   THEN "/login" ELSE location
    /\ sent' = [sent EXCEPT ![p] = IF pc[p] \in {"fetch", "refetch"} THEN NoHeaders ELSE @]
    /\ UNCHANGED <<refreshVars, retries, calls, resps, attemptRefreshes, attemptReissues,
                   obsVars, concurrent, budget, delays, page, user, logins, options,
                   errorBody, message, uiVars>>

\* the backoff delay elapses: return fetchWithAuth(endpoint, options, retries + 1, responseType)
Retry(p) ==
    /\ pc[p] = "backoff"
    /\ retries' = [retries EXCEPT ![p] = @ + 1]
    /\ aborted' = [aborted EXCEPT ![p] = FALSE]
    /\ calls' = [calls EXCEPT ![p] = @ + 1]
    /\ sent' = [sent EXCEPT ![p] = RequestHeaders(options[p], cookies.accessToken)]
    /\ attemptRefreshes' = [attemptRefreshes EXCEPT ![p] = 0]
    /\ attemptReissues' = [attemptReissues EXCEPT ![p] = 0]
    /\ pc' = [pc EXCEPT ![p] = "fetch"]
    /\ UNCHANGED <<cookies, refreshVars, location, resps, result, obsVars, concurrent,
                   budget, delays, page, user, logins, options, errorBody, message, uiVars>>

\* the body of a successful response is read (response.json() / response.blob())
ReadBody(p, parses) ==
    /\ pc[p] = "body"
    /\ pc' = [pc EXCEPT ![p] = "done"]
    /\ result' = [result EXCEPT ![p] = IF parses THEN "ok" ELSE "BodyError"]
    /\ UNCHANGED <<cookies, refreshVars, location, reqVars, obsVars, concurrent, budget,
                   delays, page, user, logins, options, sent, errorBody, message, uiVars>>

\* ---- refreshToken called directly (it is exported) ----
CallRefreshJoin(p) ==
    /\ pc[p] = "idle"
    /\ StartsNext(p)
    /\ RefreshPending(refreshInProgress)
    /\ pc' = [pc EXCEPT ![p] = "rwait"]
    /\ got' = [got EXCEPT ![p] = NoOutcome]
    /\ inflight' = IF refreshInProgress \in DOMAIN inflight
                   THEN [inflight EXCEPT ![refreshInProgress] = Append(@, p)]
                   ELSE inflight
    /\ refreshCalls' = [refreshCalls EXCEPT ![p] = @ + 1]
    /\ UNCHANGED <<cookies, refreshInProgress, refreshSeq, location, reqVars, result,
                   lastRefresh, concurrent, budget, delays, page, user, logins, options,
                   sent, errorBody, message, uiVars>>

CallRefreshStart(p) ==
    /\ pc[p] = "idle"
    /\ StartsNext(p)
    /\ ~RefreshPending(refreshInProgress)
    /\ ~NoRefreshCookie(cookies)
    /\ pc' = [pc EXCEPT ![p] = "rwait"]
    /\ got' = [got EXCEPT ![p] = NoOutcome]
    /\ refreshSeq' = refreshSeq + 1
    /\ refreshInProgress' = refreshSeq + 1
    /\ inflight' = (refreshSeq + 1 :> <<p>>) @@ inflight
    /\ refreshCalls' = [refreshCalls EXCEPT ![p] = @ + 1]
    /\ UNCHANGED <<cookies, location, reqVars, result, lastRefresh, concurrent, budget,
                   delays, page, user, logins, options, sent, errorBody, message, uiVars>>

CallRefreshNoToken(p) ==
    /\ pc[p] = "idle"
    /\ StartsNext(p)
    /\ ~RefreshPending(refreshInProgress)
    /\ NoRefreshCookie(cookies)
    /\ cookies' = NoTokenCleanup(cookies)
    /\ pc' = [pc EXCEPT ![p] = "done"]
    /\ result' = [result EXCEPT ![p] = "Rejected"]
    /\ got' = [got EXCEPT ![p] = ErrorOutcome("NoRefreshToken")]
    /\ lastRefresh' = [cause |-> "NoCookie", outcome |-> ErrorOutcome("NoRefreshToken"),
                       atSettle |-> NoTokenCleanup(cookies),
                       views |-> {NoTokenCleanup(cookies)}]
    /\ refreshCalls' = [refreshCalls EXCEPT ![p] = @ + 1]
    /\ UNCHANGED <<refreshVars, location, reqVars, concurrent, budget, delays, page, user,
                   logins, options, sent, errorBody, message, uiVars>>

\* ---- the refresh promise settles ----
Range(f) == {f[i] : i \in DOMAIN f}
Without(f, g) == [h \in DOMAIN f \ {g} |-> f[h]]

\* the waiters that are fetchWithAuth invocations (the others called refreshToken directly)
FetchWaiters(ws) == {w \in Range(ws) : pc[w] = "refresh"}

\* (mutant) the login time is renewed with the token
StoreTokenAndTime(c, t) == [c EXCEPT !.accessToken = t, !.loginTime = TRUE]

\* Cookies.set('accessToken', data.access_token, { expires: 7 })
StoreToken(c, t) == [c EXCEPT !.accessToken = t]

\* data.access_token: the server mints a new token at every exchange; the model names the
\* token after the exchange that issued it (the session's first token is 1)
IssuedToken(g) == g + 1

\* /auth/refresh answers ok: the promise resolves with the token, and every waiter resumes
\* in the same microtask checkpoint, in order of arrival.  A fetchWithAuth waiter re-issues
\* its call; with its own signal aborted meanwhile that fetch rejects inside the inner try.
RefreshSucceeds(g) ==
    /\ g \in DOMAIN inflight
    /\ LET ws == inflight[g]
           t == IssuedToken(g)
           all == Range(ws)
           fw == FetchWaiters(ws)
           dead == {w \in fw : aborted[w]}
           ck == StoreToken(cookies, t)
       IN /\ cookies' = IF dead # {} THEN AuthFailClear(ck) ELSE ck
          /\ location' = IF dead # {} THEN "/login" ELSE location
          /\ pc' = [p \in Procs |-> IF p \in all
                                    THEN (IF p \in fw /\ p \notin dead THEN "refetch" ELSE "done")
                                    ELSE pc[p]]
          /\ result' = [p \in Procs |-> IF p \in dead THEN "AuthFailed"
                                        ELSE IF p \in all \ fw THEN "Resolved"
                                        ELSE result[p]]
          /\ calls' = [p \in Procs |-> IF p \in fw THEN calls[p] + 1 ELSE calls[p]]
          /\ sent' = [p \in Procs |-> IF p \in fw \ dead THEN RefreshedHeaders(options[p], t)
                                       ELSE sent[p]]
          /\ attemptReissues' = [p \in Procs |-> IF p \in fw THEN attemptReissues[p] + 1
                                                 ELSE attemptReissues[p]]
          /\ got' = [p \in Procs |-> IF p \in all THEN TokenOutcome(t) ELSE got[p]]
          /\ lastRefresh' = [cause |-> "Ok", outcome |-> TokenOutcome(t), atSettle |-> ck,
                             views |-> {ck}]
    /\ refreshInProgress' = MarkerAfterSettle(refreshInProgress)
    /\ inflight' = Without(inflight, g)
    /\ UNCHANGED <<refreshSeq, retries, aborted, resps, attemptRefreshes, refreshCalls,
                   concurrent, budget, delays, page, user, logins, options, errorBody,
                   message, uiVars>>

\* /auth/refresh answers not ok, fetch rejects, or the refresh timer fires: the promise
\* rejects, and every waiter resumes in order of arrival; a fetchWithAuth waiter runs its
\* inner catch at once, before the waiters behind it resume.
RefreshFails(g, failure) ==
    /\ g \in DOMAIN inflight
    /\ LET ws == inflight[g]
           all == Range(ws)
           fw == FetchWaiters(ws)
           ck == RefreshCatch(cookies, failure)
           At(i) == IF \E j \in 1..(i - 1) : ws[j] \in fw THEN AuthFailClear(ck) ELSE ck
       IN /\ cookies' = IF fw # {} THEN AuthFailClear(ck) ELSE ck
          /\ location' = IF fw # {} THEN "/login" ELSE location
          /\ pc' = [p \in Procs |-> IF p \in all THEN "done" ELSE pc[p]]
          /\ result' = [p \in Procs |-> IF p \in fw THEN "AuthFailed"
                                        ELSE IF p \in all THEN "Rejected"
                                        ELSE result[p]]
          /\ got' = [p \in Procs |-> IF p \in all THEN ErrorOutcome(RefreshError(failure))
                                     ELSE got[p]]
          /\ lastRefresh' = [cause |-> failure, outcome |-> ErrorOutcome(RefreshError(failure)),
                             atSettle |-> ck,
                             views |-> {At(i) : i \in DOMAIN ws}]
    /\ refreshInProgress' = MarkerAfterSettle(refreshInProgress)
    /\ inflight' = Without(inflight, g)
    /\ UNCHANGED <<refreshSeq, reqVars, refreshCalls, concurrent, budget, delays, page,
                   user, logins, options, sent, errorBody, message, uiVars>>

\* ---- AuthProvider ----
\* the LoginResponse objects a caller may hand to login(): null, or an object with or
\* without each of access_token, refresh_token and user
LoginResponses == [isNull : BOOLEAN, access_token : BOOLEAN, refresh_token : BOOLEAN,
                   user : BOOLEAN]

\* (mutant) the refresh token is not checked either, and not stored when it is missing
LoginStoreIfGiven(c, userData) ==
    [userData |-> TRUE, accessToken |-> 1, refreshToken |-> userData.refresh_token,
     loginTime |-> TRUE]

\* (mutant) the user profile is not looked at
LoginInvalidNoUserTest(userData) == userData.isNull \/ ~userData.access_token

\* !userData || !userData.access_token || !userData.user
LoginInvalid(userData) == userData.isNull \/ ~userData.access_token \/ ~userData.user

\* the four Cookies.set calls of login; Cookies.set('refreshToken', undefined) stores the
\* text 'undefined', so the cookie is present whatever the response held
LoginStore(c, userData) ==
    [userData |-> TRUE, accessToken |-> 1, refreshToken |-> TRUE, loginTime |-> TRUE]

Login(userData) ==
    /\ Len(logins) < MaxLogins
    /\ logins' = Append(logins, ~LoginInvalid(userData))
    /\ cookies' = IF LoginInvalid(userData) THEN cookies ELSE LoginStore(cookies, userData)
    /\ user' = IF LoginInvalid(userData) THEN user ELSE TRUE
    /\ UNCHANGED <<refreshVars, location, pc, reqVars, result, obsVars, concurrent, budget,
                   delays, page, options, sent, errorBody, message, uiVars>>

Logout ==
    /\ cookies' = LogoutClear(cookies)
    /\ user' = FALSE
    /\ location' = "/login"
    /\ UNCHANGED <<refreshVars, pc, reqVars, result, obsVars, concurrent, budget, delays,
                   page, logins, options, sent, errorBody, message, uiVars>>

\* ---- page requests ----
\* the browser requests a page: the middleware runs for the paths of its matcher, with the
\* cookies of the session
Navigate(path) ==
    /\ page' = [path |-> path, token |-> cookies.accessToken,
                response |-> IF Matcher(path) THEN middleware(path, cookies.accessToken)
                             ELSE PassThrough]
    /\ UNCHANGED <<cookies, refreshVars, location, pc, reqVars, result, obsVars, concurrent,
                   budget, delays, user, logins, options, sent, errorBody, message, uiVars>>

\* ---- the AuthProvider and a guarded page ----
\* the browser loads a guarded page: the AuthProvider and the page component are rendered
\* for the first time, with useState(null) as user and useState(true) as loading; type is
\* the type of the user profile this browser's sessions hold
OpenPage(route, type) ==
    /\ user' = FALSE
    /\ loading' = TRUE
    /\ view' = [route |-> route, mounted |-> FALSE, isAuthenticated |-> FALSE,
                type |-> type, pushed |-> << >>]
    /\ UNCHANGED <<cookies, refreshVars, location, pc, reqVars, result, obsVars, concurrent,
                   budget, delays, page, logins, options, sent, errorBody, message, staff,
                   entryList>>

\* the effects of the first commit, the page's before the AuthProvider's (effects of a child
\* run first): the authorization effect runs with the values of the first render, then the
\* AuthProvider's effect reads the userData cookie, sets the user and ends loading.  The
\* cookie is written by JSON.stringify only, so JSON.parse succeeds.
MountEffects ==
    /\ view.route # "none"
    /\ ~view.mounted
    /\ view' = [view EXCEPT !.mounted = TRUE, !.isAuthenticated = user,
                            !.pushed = @ \o AuthorizationEffect(view.route, user, view.type)]
    /\ user' = IF cookies.userData THEN TRUE ELSE user
    /\ loading' = FALSE
    /\ UNCHANGED <<cookies, refreshVars, location, pc, reqVars, result, obsVars, concurrent,
                   budget, delays, page, logins, options, sent, errorBody, message, staff,
                   entryList>>

\* a later commit: the authorization effect runs again when isAuthenticated (a dependency)
\* has changed since it last ran
UpdateEffects ==
    /\ view.route # "none"
    /\ view.mounted
    /\ view.isAuthenticated # user
    /\ view' = [view EXCEPT !.isAuthenticated = user,
                            !.pushed = @ \o AuthorizationEffect(view.route, user, view.type)]
    /\ UNCHANGED <<cookies, refreshVars, location, pc, reqVars, result, obsVars, concurrent,
                   budget, delays, page, user, logins, options, sent, errorBody, message,
                   loading, staff, entryList>>

\* ---- employeeService and EmployeeList ----
\* createEmployee(employeeData) for an employee the server does not hold yet: the type is
\* sent as its backend key, and the server stores what it was sent
CreateEmployee(id, type) ==
    /\ staff.server = NoType
    /\ staff' = [staff EXCEPT !.id = id, !.form = type,
                              !.body = MappedType(EMPLOYEE_TYPE_MAPPING, type),
                              !.server = MappedType(EMPLOYEE_TYPE_MAPPING, type)]
    /\ UNCHANGED <<cookies, refreshVars, location, pc, reqVars, result, obsVars, concurrent,
                   budget, delays, page, user, logins, options, sent, errorBody, message,
                   loading, view, entryList>>

\* updateEmployee(employeeId, employeeData) with a type
UpdateEmployee(type) ==
    /\ staff.server # NoType
    /\ staff' = [staff EXCEPT !.form = type,
                              !.body = MappedType(EMPLOYEE_TYPE_MAPPING, type),
                              !.server = MappedType(EMPLOYEE_TYPE_MAPPING, type)]
    /\ UNCHANGED <<cookies, refreshVars, location, pc, reqVars, result, obsVars, concurrent,
                   budget, delays, page, user, logins, options, sent, errorBody, message,
                   loading, view, entryList>>

\* getEmployees(): the employee comes back with the display name of its type; the list is
\* rendered anew
GetEmployees ==
    /\ staff.server # NoType
    /\ staff' = [staff EXCEPT !.listed = MappedType(BACKEND_TYPE_MAPPING, staff.server),
                              !.rendered = FALSE, !.canEdit = FALSE, !.canDelete = FALSE]
    /\ UNCHANGED <<cookies, refreshVars, location, pc, reqVars, result, obsVars, concurrent,
                   budget, delays, page, user, logins, options, sent, errorBody, message,
                   loading, view, entryList>>

\* EmployeeList renders the row of the employee and asks canEditEmployee and
\* canDeleteEmployee
RenderRow ==
    /\ staff.listed # NoType
    /\ ~staff.rendered
    /\ staff' = [staff EXCEPT
                   !.rendered = TRUE,
                   !.canEdit = canEditEmployee(staff.currentUser,
                                               [id |-> staff.id, type |-> staff.listed]),
                   !.canDelete = canDeleteEmployee(staff.currentUser,
                                                   [id |-> staff.id, type |-> staff.listed])]
    /\ UNCHANGED <<cookies, refreshVars, location, pc, reqVars, result, obsVars, concurrent,
                   budget, delays, page, user, logins, options, sent, errorBody, message,
                   loading, view, entryList>>

\* ---- PatientEntryList ----
\* fetchEntries(ofPage) up to its await: the request goes out with the filters of the render
\* the call was made in
FetchEntries(list, ofPage) ==
    LET request == [seq |-> list.issued.seq + 1, filters |-> list.filters, page |-> ofPage]
    IN [list EXCEPT !.issued = request, !.outstanding = @ \cup {request},
                      !.loading = TRUE]

\* the effect on [filters, refreshTrigger]: it runs when the component mounts and when the
\* parent hands it new filters or a new refreshTrigger; fetchEntries(1); setCurrentPage(1)
FiltersEffect(filters) ==
    /\ entryList.issued.seq < MaxFetches
    /\ entryList' = [FetchEntries([entryList EXCEPT !.filters = filters], 1)
                        EXCEPT !.currentPage = 1]
    /\ UNCHANGED <<cookies, refreshVars, location, pc, reqVars, result, obsVars, concurrent,
                   budget, delays, page, user, logins, options, sent, errorBody, message,
                   loading, view, staff>>

\* handlePageChange(page), from the Previous and Next buttons (rendered once a response
\* is shown, disabled at the first and the last page)
HandlePageChange(toPage) ==
    /\ entryList.shown.seq > 0
    /\ entryList.issued.seq < MaxFetches
    /\ toPage \in {entryList.currentPage - 1, entryList.currentPage + 1}
    /\ entryList' = FetchEntries(entryList, toPage)
    /\ UNCHANGED <<cookies, refreshVars, location, pc, reqVars, result, obsVars, concurrent,
                   budget, delays, page, user, logins, options, sent, errorBody, message,
                   loading, view, staff>>

\* getPatientEntries resolves for an outstanding request, whichever it is: the response is
\* shown (setEntries, setTotal, setCurrentPage(response.current_page)); setLoading(false)
EntriesArrive(request) ==
    /\ request \in entryList.outstanding
    /\ entryList' = [entryList EXCEPT !.outstanding = @ \ {request}, !.shown = request,
                                      !.currentPage = request.page, !.loading = FALSE]
    /\ UNCHANGED <<cookies, refreshVars, location, pc, reqVars, result, obsVars, concurrent,
                   budget, delays, page, user, logins, options, sent, errorBody, message,
                   loading, view, staff>>

\* getPatientEntries rejects for an outstanding request: setError; setLoading(false)
EntriesFail(request) ==
    /\ request \in entryList.outstanding
    /\ entryList' = [entryList EXCEPT !.outstanding = @ \ {request},
                                      !.failed = @ \cup {request.seq}, !.loading = FALSE]
    /\ UNCHANGED <<cookies, refreshVars, location, pc, reqVars, result, obsVars, concurrent,
                   budget, delays, page, user, logins, options, sent, errorBody, message,
                   loading, view, staff>>

\* the refresh call's own timer fires (createAbortController in refreshToken)
RefreshTimer == \E g \in DOMAIN inflight : RefreshFails(g, "Timeout")

NextNoRetry ==
    \/ \E p \in Procs : StartFetch(p)
    \/ \E p \in Procs, status \in SharedStatuses : Respond(p, status)
    \/ \E p \in Procs : Respond401Join(p)
    \/ \E p \in Procs : Respond401Start(p)
    \/ \E p \in Procs : Respond401NoToken(p)
    \/ \E p \in Procs, status \in SharedStatuses : RespondReissue(p, status)
    \/ \E p \in Procs : NetworkError(p)
    \/ \E p \in Procs : NetworkErrorReissue(p)
    \/ \E p \in Procs : Timeout(p)
    \/ \E p \in Procs, parses \in SharedParses : ReadBody(p, parses)
    \/ \E p \in Procs : CallRefreshJoin(p)
    \/ \E p \in Procs : CallRefreshStart(p)
    \/ \E p \in Procs : CallRefreshNoToken(p)
    \/ \E g \in DOMAIN inflight : RefreshSucceeds(g)
    \/ \E g \in DOMAIN inflight, failure \in RefreshFailures : RefreshFails(g, failure)
    \/ Logout

Next ==
    \/ NextNoRetry
    \/ \E p \in Procs : Retry(p)

Init ==
    /\ InitCommon
    /\ options = [p \in Procs |-> DefaultOptions]
    /\ errorBody = [p \in Procs |-> DefaultErrorBody]
    /\ staff = NoStaff
    /\ budget = [unauthorized |-> MaxUnauthorized, serverError |-> MaxServerErrors]

Spec == Init /\ [][Next]_vars

\* ---- the callers without server errors, and the timer of the refresh call always firing
\* unless the call settles first (setTimeout in createAbortController, cleared in finally) ----
InitNoErrors ==
    /\ InitCommon
    /\ options = [p \in Procs |-> DefaultOptions]
    /\ errorBody = [p \in Procs |-> DefaultErrorBody]
    /\ staff = NoStaff
    /\ budget = [unauthorized |-> MaxUnauthorized, serverError |-> 0]

FairSpec == InitNoErrors /\ [][NextNoRetry]_vars /\ WF_vars(RefreshTimer)

\* ---- one logical request on its own, with room for all of its retries ----
InitRetry ==
    /\ InitCommon
    /\ options = [p \in Procs |-> DefaultOptions]
    /\ errorBody = [p \in Procs |-> DefaultErrorBody]
    /\ staff = NoStaff
    /\ budget = [unauthorized |-> MaxRetryUnauthorized, serverError |-> MaxRetryServerErrors]

NextRetry ==
    \/ StartFetch(1)
    \/ \E status \in RetryStatuses : Respond(1, status)
    \/ Respond401Start(1)
    \/ Respond401NoToken(1)
    \/ \E status \in RetryStatuses : RespondReissue(1, status)
    \/ NetworkError(1)
    \/ NetworkErrorReissue(1)
    \/ Timeout(1)
    \/ Retry(1)
    \/ \E parses \in BOOLEAN : ReadBody(1, parses)
    \/ \E g \in DOMAIN inflight : RefreshSucceeds(g)
    \/ \E g \in DOMAIN inflight, failure \in RefreshFailures : RefreshFails(g, failure)

SpecRetry == InitRetry /\ [][NextRetry]_vars

\* ---- one logical request with its timers: the timer of an invocation fires unless the
\* invocation is over (setTimeout in createAbortController, cleared in the finally blocks),
\* so does the timer of the refresh call, and the backoff delay elapses.  No timer runs
\* while the body of a successful response is read: return response.json() leaves the try
\* block, and the finally block clears the timer, before the body has arrived. ----
FairSpecRetry ==
    /\ InitRetry
    /\ [][NextRetry]_vars
    /\ WF_vars(Timeout(1))
    /\ WF_vars(RefreshTimer)
    /\ WF_vars(Retry(1))

\* ---- one request with any options ----
InitOptions ==
    /\ InitCommon
    /\ options \in [Procs -> OptionSet]
    /\ \A p \in Procs \ {1} : options[p] = DefaultOptions
    /\ errorBody \in [Procs -> ErrorBodies]
    /\ \A p \in Procs \ {1} : errorBody[p] = DefaultErrorBody
    /\ staff = NoStaff
    /\ budget = [unauthorized |-> MaxUnauthorized, serverError |-> MaxServerErrors]

SpecOptions == InitOptions /\ [][NextRetry]_vars

\* ---- one request, the session operations of the AuthProvider and page requests ----
NextPages ==
    \/ StartFetch(1)
    \/ \E status \in Statuses : Respond(1, status)
    \/ Respond401Start(1)
    \/ Respond401NoToken(1)
    \/ \E status \in Statuses : RespondReissue(1, status)
    \/ NetworkError(1)
    \/ NetworkErrorReissue(1)
    \/ Timeout(1)
    \/ Retry(1)
    \/ \E parses \in BOOLEAN : ReadBody(1, parses)
    \/ \E g \in DOMAIN inflight : RefreshSucceeds(g)
    \/ \E g \in DOMAIN inflight, failure \in RefreshFailures : RefreshFails(g, failure)
    \/ \E userData \in LoginResponses : Login(userData)
    \/ Logout
    \/ \E path \in Paths : Navigate(path)

SpecPages == Init /\ [][NextPages]_vars

\* ---- the AuthProvider with a guarded page, login and logout ----
NextGuard ==
    \/ \E route \in GuardedPages, type \in EmployeeTypes : OpenPage(route, type)
    \/ MountEffects
    \/ UpdateEffects
    \/ \E userData \in LoginResponses : Login(userData)
    \/ Logout

SpecGuard == Init /\ [][NextGuard]_vars

\* ---- the employees page: any user, and an employee of any type on the server or none ----
InitEmployees ==
    /\ InitCommon
    /\ options = [p \in Procs |-> DefaultOptions]
    /\ errorBody = [p \in Procs |-> DefaultErrorBody]
    /\ budget = [unauthorized |-> MaxUnauthorized, serverError |-> MaxServerErrors]
    /\ \E currentUser \in Users \cup {NoUser}, id \in EmployeeIds,
          type \in ServerTypes \cup {NoType} :
            staff = [NoStaff EXCEPT !.currentUser = currentUser, !.id = id, !.server = type]

NextEmployees ==
    \/ \E id \in EmployeeIds, type \in FormTypes : CreateEmployee(id, type)
    \/ \E type \in FormTypes : UpdateEmployee(type)
    \/ GetEmployees
    \/ RenderRow

SpecEmployees == InitEmployees /\ [][NextEmployees]_vars

\* ---- the PatientEntryList with its parent changing the filters and the user paging ----
NextEntries ==
    \/ \E filters \in EntryFilters : FiltersEffect(filters)
    \/ \E toPage \in EntryPages : HandlePageChange(toPage)
    \/ \E request \in entryList.outstanding : EntriesArrive(request)
    \/ \E request \in entryList.outstanding : EntriesFail(request)

SpecEntries == Init /\ [][NextEntries]_vars

\* ======================= the claims =======================
IsFetch(p) == calls[p] > 0
\* caller p enters refreshToken in this step
Invokes(p) == refreshCalls'[p] = refreshCalls[p] + 1
\* the refresh call g settles in this step
Settles(g) == g \in DOMAIN inflight /\ g \notin DOMAIN inflight'

\* C1: at most one network call to /auth/refresh is outstanding in every reachable state,
\* and a refreshToken call made while the marker is set awaits the pending operation and
\* issues no network call of its own.
C1_Step ==
    \A p \in Procs :
        (Invokes(p) /\ refreshInProgress # 0) =>
            /\ refreshSeq' = refreshSeq
            /\ DOMAIN inflight' = DOMAIN inflight
            /\ refreshInProgress' = refreshInProgress
            /\ p \in Range(inflight'[refreshInProgress])
C1_SingleFlight ==
    /\ [](Cardinality(DOMAIN inflight) <= 1)
    /\ [][C1_Step]_vars
C1_Witness == \E g \in DOMAIN inflight : Len(inflight[g]) >= 2

\* C2 (as stated): N concurrently issued fetchWithAuth calls each receive one 401, in
\* whatever order relative to the refresh settling: exactly one call to the refresh endpoint
\* is made in total (none without a refresh cookie) and all outcomes agree.
C2_Scenario ==
    /\ concurrent
    /\ \A p \in Procs : retries[p] = 0 /\ refreshCalls[p] = 1 /\ resps[p] # << >> /\ resps[p][1] = 401
C2_AnyOrder ==
    C2_Scenario =>
        /\ refreshSeq <= 1
        /\ \A p, q \in Procs :
              (got[p].kind # "none" /\ got[q].kind # "none") => got[p] = got[q]

\* C2 (amended): N concurrent fetchWithAuth calls whose 401s all arrive before the refresh
\* started by the first of them settles share that one call to the refresh endpoint, and
\* when it settles all of them get the same outcome: all re-issue their call with the same
\* new token, or all fail with the authentication error.
C2_AllAwaiting == \A p \in Procs : pc[p] = "refresh" /\ retries[p] = 0
C2_Shared ==
    C2_AllAwaiting =>
        /\ refreshSeq = 1
        /\ \E g \in DOMAIN inflight : Range(inflight[g]) = Procs
C2_Delivery ==
    \A g \in DOMAIN inflight :
        Settles(g) =>
            \A p, q \in Range(inflight[g]) :
                /\ got'[p] = got'[q]
                /\ got'[p].kind # "none"
                /\ (pc[p] = "refresh" /\ got'[p].kind = "error") => result'[p] = "AuthFailed"
                /\ (pc[p] = "refresh" /\ got'[p].kind = "token") => calls'[p] = calls[p] + 1
C2_SingleRefresh ==
    /\ [](C2_Shared)
    /\ [][C2_Delivery]_vars
C2_Witness ==
    /\ refreshSeq = 1
    /\ \A p, q \in Procs : pc[p] = "refetch" /\ got[p].kind = "token" /\ got[p] = got[q]

\* C3 (as stated): when the outcome of a refresh is delivered, every caller awaiting it
\* finds the stored session credentials in the same state.
C3_SameView == Cardinality(lastRefresh.views) <= 1

\* C3 (amended): a caller of refreshToken that arrives while a refresh is pending awaits the
\* same operation as the original caller and gets exactly its outcome (the same token, or
\* the same error); unless the refresh timed out, both find the stored session credentials
\* in the same state when the outcome is delivered.  (On a timeout refreshToken leaves the
\* cookies in place, and a fetchWithAuth caller that resumes first removes them before the
\* callers behind it resume.)
C3_Step ==
    /\ \A p \in Procs :
          (Invokes(p) /\ DOMAIN inflight # {}) =>
              \E g \in DOMAIN inflight :
                  /\ g \in DOMAIN inflight'
                  /\ inflight'[g] = Append(inflight[g], p)
    /\ \A g \in DOMAIN inflight :
          Settles(g) =>
              /\ \A p \in Range(inflight[g]) :
                    got'[p] = got'[inflight[g][1]] /\ got'[p] = lastRefresh'.outcome
              /\ lastRefresh'.cause # "Timeout" => Cardinality(lastRefresh'.views) = 1
C3_SameOutcome == [][C3_Step]_vars
C3_Witness ==
    \E p, q \in Procs : p # q /\ got[p].kind = "token" /\ got[p] = got[q]

\* C4: whenever a refresh settles the marker is cleared, so the marker is set exactly while
\* a refresh network call is outstanding; a refreshToken call made with the marker clear and
\* a refresh cookie stored starts a network attempt of its own; and a started refresh always
\* eventually settles and clears the marker.
C4_Step ==
    /\ \A g \in DOMAIN inflight : Settles(g) => refreshInProgress' = 0
    /\ \A p \in Procs :
          (Invokes(p) /\ refreshInProgress = 0 /\ cookies.refreshToken) =>
              /\ refreshSeq' = refreshSeq + 1
              /\ refreshInProgress' = refreshSeq'
              /\ DOMAIN inflight' = {refreshSeq'}
C5_Step ==
    \A p \in Procs :
        (Invokes(p) /\ ~cookies.refreshToken) =>
            /\ refreshSeq' = refreshSeq
            /\ DOMAIN inflight' = DOMAIN inflight
            /\ refreshInProgress = 0 =>
                  /\ refreshInProgress' = 0
                  /\ pc'[p] = "done"
                  /\ got'[p] = ErrorOutcome("NoRefreshToken")
                  /\ lastRefresh'.outcome = ErrorOutcome("NoRefreshToken")
                  /\ lastRefresh'.atSettle = [cookies EXCEPT !.accessToken = 0,
                                                             !.userData = FALSE]
                  /\ cookies'.accessToken = 0
                  /\ ~cookies'.userData
C6_AlwaysCleared ==
    lastRefresh.cause \in RefreshFailures => AllAbsent(lastRefresh.atSettle)

\* C6 (amended): whenever the refresh exchange fails with a non-OK response or a network
\* error, all four session entries are absent at the moment refreshToken rejects; when the
\* refresh call times out, refreshToken rejects with the timeout-specific error - and only
\* then - and leaves the session entries as they were.
C6_Step ==
    \A g \in DOMAIN inflight :
        (Settles(g) /\ lastRefresh'.cause \in RefreshFailures) =>
            /\ lastRefresh'.outcome.kind = "error"
            /\ lastRefresh'.cause # "Timeout" =>
                  /\ AllAbsent(lastRefresh'.atSettle)
                  /\ lastRefresh'.outcome.err # "AuthTimedOut"
            /\ lastRefresh'.cause = "Timeout" =>
                  /\ lastRefresh'.atSettle = cookies
                  /\ lastRefresh'.outcome.err = "AuthTimedOut"
            /\ \A p \in Range(inflight[g]) :
                  pc[p] = "rwait" => (result'[p] = "Rejected" /\ got'[p] = lastRefresh'.outcome)
C6_ClearedOnFailure == [][C6_Step]_vars
C6_Witness ==
    \E p \in Procs :
        /\ result[p] = "Rejected"
        /\ got[p] = ErrorOutcome("HttpError")
        /\ lastRefresh.cause = "HttpError"
        /\ AllAbsent(cookies)

\* C7: when a fetchWithAuth call receives a 401 and the refresh fails (no refresh cookie,
\* rejected refresh, refresh timeout), the call rejects with 'Authentication failed', and
\* at that moment all four session entries are absent and the location is /login; the
\* request issues no network call afterwards.
C7_Step ==
    \A p \in Procs :
        /\ (IsFetch(p) /\ got[p].kind # "error" /\ got'[p].kind = "error") =>
              /\ result'[p] = "AuthFailed"
              /\ pc'[p] = "done"
              /\ AllAbsent(cookies')
              /\ location' = "/login"
              /\ calls'[p] = calls[p]
        /\ result[p] = "AuthFailed" =>
              /\ result'[p] = "AuthFailed"
              /\ pc'[p] = "done"
              /\ calls'[p] = calls[p]
              /\ resps'[p] = resps[p]
C7_AuthFailure == [][C7_Step]_vars
C7_Witness ==
    \E p \in Procs :
        /\ result[p] = "AuthFailed"
        /\ got[p] = ErrorOutcome("AuthTimedOut")
        /\ AllAbsent(cookies)
        /\ location = "/login"

\* C8: whenever fetchWithAuth fails with the authentication error, a token refresh was
\* attempted for that request and failed; a request whose refresh succeeded never reports
\* an authentication error.
C8_OnlyAfterFailedRefresh ==
    \A p \in Procs : result[p] = "AuthFailed" => got[p].kind = "error"

\* C9 (as stated): over one logical request, 5xx retries included, refreshToken is invoked
\* at most once.
C9_OncePerRequest == \A p \in Procs : refreshCalls[p] <= 1

\* C9 (amended): for one invocation of fetchWithAuth (one attempt of a logical request) a
\* 401 triggers exactly one refresh-and-retry: refreshToken is invoked at most once, the
\* call is re-issued at most once, with the new token, and a 401 on the re-issued call is
\* reported as an API error without another refresh.  Each 5xx retry is a new invocation,
\* so a logical request invokes refreshToken at most MAX_RETRIES + 1 times.
C9_State ==
    \A p \in Procs :
        /\ attemptRefreshes[p] <= 1
        /\ attemptReissues[p] <= attemptRefreshes[p]
        /\ refreshCalls[p] <= retries[p] + 1
        /\ refreshCalls[p] <= MAX_RETRIES + 1
        /\ pc[p] = "refetch" => (attemptReissues[p] = 1 /\ got[p].kind = "token")
C9_Step ==
    \A p \in Procs :
        (pc[p] = "refetch" /\ resps'[p] = Append(resps[p], 401)) =>
            /\ pc'[p] = "done"
            /\ result'[p] = "ApiError"
            /\ refreshCalls'[p] = refreshCalls[p]
            /\ calls'[p] = calls[p]
C9_OncePerAttempt ==
    /\ [](C9_State)
    /\ [][C9_Step]_vars
C9_Witness ==
    /\ resps[1] = <<401, 401>>
    /\ result[1] = "ApiError"
    /\ refreshCalls[1] = 1
    /\ calls[1] = 2

\* C10: a logical request is attempted at most MAX_RETRIES + 1 = 3 times: answered 500, 500
\* and 200 it succeeds (its body parsing) after exactly 3 network calls, and answered a
\* status >= 500 every time it fails with an API error after exactly 3 network calls.
AllServerErrors(seq) == \A i \in DOMAIN seq : seq[i] >= 500
C10_ThreeAttempts ==
    \A p \in Procs :
        /\ retries[p] + 1 <= MAX_RETRIES + 1
        /\ resps[p] = <<500, 500, 200>> =>
              /\ calls[p] = 3
              /\ pc[p] \in {"body", "done"}
              /\ (pc[p] = "done" /\ result[p] # "BodyError") => result[p] = "ok"
        /\ AllServerErrors(resps[p]) =>
              /\ calls[p] <= 3
              /\ Len(resps[p]) = 3 => (pc[p] = "done" /\ result[p] = "ApiError" /\ calls[p] = 3)
              /\ (pc[p] = "done" /\ result[p] = "ApiError") => calls[p] = 3
C10_Witness ==
    /\ resps[1] = <<500, 500, 200>>
    /\ result[1] = "ok"
    /\ calls[1] = 3

\* C11: the delay before retry number k+1 is min(1000 * 2^k, 10000) ms: 1000 ms after
\* attempt 0 and 2000 ms after attempt 1; every delay is at most 10000 ms; and these are the
\* only delays of a request: one per retry, none before the first attempt or on any other
\* path.
C11_Wait(p) == IF pc[p] = "backoff" THEN 1 ELSE 0
C11_Step ==
    \A p \in Procs :
        delays'[p] # delays[p] =>
            /\ pc'[p] = "backoff"
            /\ pc[p] \in {"fetch", "refetch"}
            /\ resps'[p] # resps[p]
            /\ resps'[p][Len(resps'[p])] >= 500
C11_BackoffDelay ==
    /\ [](\A p \in Procs :
            /\ delays[p] \in {<< >>, <<1000>>, <<1000, 2000>>}
            /\ \A i \in DOMAIN delays[p] : delays[p][i] <= 10000
            /\ Len(delays[p]) = retries[p] + C11_Wait(p))
    /\ [][C11_Step]_vars
C11_Witness ==
    /\ delays[1] = <<1000, 2000>>
    /\ retries[1] = 2
    /\ pc[1] = "done"

\* C12: a response with a 4xx status other than 401 makes fetchWithAuth fail after exactly
\* one network call: no retry, no backoff wait, no call to refreshToken, and no change to the
\* session entries.
C12_ClientError(status) == status >= 400 /\ status <= 499 /\ status # 401
C12_Step ==
    \A p \in Procs :
        /\ (pc[p] = "fetch" /\ resps'[p] # resps[p]
               /\ C12_ClientError(resps'[p][Len(resps'[p])])) =>
              /\ pc'[p] = "done"
              /\ result'[p] = "ApiError"
              /\ calls'[p] = calls[p]
              /\ retries'[p] = retries[p]
              /\ delays'[p] = delays[p]
              /\ refreshCalls'[p] = refreshCalls[p]
              /\ refreshVars' = refreshVars
              /\ cookies' = cookies
              /\ location' = location
        /\ pc[p] = "done" =>
              /\ pc'[p] = "done"
              /\ calls'[p] = calls[p]
              /\ refreshCalls'[p] = refreshCalls[p]
C12_NoRetryOn4xx ==
    /\ [](\A p \in Procs :
            (Len(resps[p]) = 1 /\ C12_ClientError(resps[p][1])) =>
                /\ pc[p] = "done"
                /\ result[p] = "ApiError"
                /\ calls[p] = 1
                /\ refreshCalls[p] = 0
                /\ delays[p] = << >>)
    /\ [][C12_Step]_vars
C12_Witness ==
    /\ resps[1] = <<403>>
    /\ result[1] = "ApiError"
    /\ calls[1] = 1
    /\ cookies = FullSession

\* C13: a request whose cancellation signal fired before it completed - during the initial
\* call, while waiting on a refresh, or during the re-issued call - fails with the
\* timeout-specific error 'Request timed out after 30000ms'.
C13_TimeoutError ==
    \A p \in Procs :
        (IsFetch(p) /\ aborted[p] /\ pc[p] = "done") => result[p] = "TimedOut"

\* C14: the firing of one request's timeout aborts only that request's network call: it
\* leaves every other caller where it was, leaves a pending refresh pending, and leaves
\* alone the shared session that the outcome of the other calls depends on.
C14_Step ==
    \A p \in Procs :
        (aborted'[p] /\ ~aborted[p]) =>
            /\ \A q \in Procs \ {p} :
                  /\ pc'[q] = pc[q]
                  /\ result'[q] = result[q]
                  /\ aborted'[q] = aborted[q]
                  /\ got'[q] = got[q]
            /\ refreshVars' = refreshVars
            /\ cookies' = cookies
            /\ location' = location
C14_TimeoutIsolated == [][C14_Step]_vars

\* C15: a request for any path other than /login that carries no non-empty accessToken
\* cookie is redirected to /login, a request for /login that carries an accessToken cookie
\* is redirected to /dashboard, and every other request passes.
C15_RouteGuard ==
    page.response.kind # "none" =>
        page.response = IF page.path # LoginPath /\ page.token = 0 THEN Redirect(LoginPath)
                        ELSE IF page.path = LoginPath /\ page.token # 0
                             THEN Redirect(DashboardPath)
                        ELSE PassThrough

\* C16: the four session entries are created together and destroyed together: when login()
\* returns normally all of accessToken, refreshToken, userData and loginTime are present (a
\* login() that throws sets none of them), and after logout() or an authentication failure
\* of fetchWithAuth all four are absent.
C16_AllPresent(c) == c.accessToken # 0 /\ c.refreshToken /\ c.userData /\ c.loginTime
C16_LoginStep == Len(logins') = Len(logins) + 1
C16_LogoutStep ==
    /\ location' = "/login"
    /\ ~user'
    /\ UNCHANGED <<pc, result, aborted, page, logins, refreshVars, got>>
C16_Step ==
    /\ C16_LoginStep =>
          IF logins'[Len(logins')] THEN C16_AllPresent(cookies') /\ user'
          ELSE cookies' = cookies /\ user' = user
    /\ C16_LogoutStep => AllAbsent(cookies')
    /\ \A p \in Procs :
          (result[p] # "AuthFailed" /\ result'[p] = "AuthFailed") => AllAbsent(cookies')
C16_SessionLifecycle == [][C16_Step]_vars
C16_Witness ==
    /\ logins = <<TRUE>>
    /\ C16_AllPresent(cookies)
    /\ location = "/login"
    /\ result[1] = "AuthFailed"

\* C17: a network call issued by fetchWithAuth (by a caller that passed no Authorization of
\* its own) carries the header Authorization 'Bearer <accessToken>' exactly when an
\* accessToken cookie is stored; with no access token stored no Authorization header is
\* sent, for JSON bodies and FormData bodies alike.
C17_Step ==
    \A p \in Procs :
        (calls'[p] = calls[p] + 1 /\ pc'[p] = "fetch" /\ ~options[p].headers.authorization) =>
            sent'[p].authorization = IF cookies.accessToken # 0 THEN <<cookies.accessToken>>
                                     ELSE << >>
C17_BearerHeader == [][C17_Step]_vars

\* C18 (as stated): a call with a FormData body is sent without a Content-Type header and a
\* call with a JSON body carries exactly 'Content-Type: application/json', on the first
\* call and on the re-issued call, whatever headers the caller passed.
C18_InFlight(p) == pc[p] \in {"fetch", "refetch"}
C18_AlwaysJson ==
    \A p \in Procs :
        C18_InFlight(p) =>
            sent[p].contentType = IF options[p].body = "formData" THEN << >>
                                  ELSE <<"application/json">>

\* C18 (amended): a call with a FormData body is sent without any Content-Type header, on
\* the first call and on the re-issued call after a refresh, whatever headers the caller
\* passed; a call with a JSON body carries 'Content-Type: application/json' when the
\* caller's headers name no Content-Type, and otherwise the caller's value: in place of the
\* default when it is given under the key 'Content-Type', next to it under another spelling.
C18_ContentType ==
    \A p \in Procs :
        C18_InFlight(p) =>
            sent[p].contentType =
                IF options[p].body = "formData" THEN << >>
                ELSE IF options[p].headers.contentType = "none" THEN <<"application/json">>
                ELSE IF options[p].headers.contentType = "Content-Type" THEN <<"text/plain">>
                ELSE <<"application/json", "text/plain">>
C18_Witness ==
    /\ pc[1] = "refetch"
    /\ options[1].body = "formData"
    /\ options[1].headers.contentType = "Content-Type"
    /\ sent[1] = [authorization |-> <<2>>, contentType |-> << >>]

\* C19: when the final response of a request is not successful, fetchWithAuth fails with an
\* error whose message is the server-supplied 'message' field when the error body parses
\* and has one, and otherwise 'API error: <status>' with the status of that response; no
\* error body makes it fail in another way.
C19_ErrorMessage ==
    \A p \in Procs :
        (pc[p] = "done" /\ result[p] \in {"ApiError", "TypeError"}) =>
            /\ result[p] = "ApiError"
            /\ message[p] = IF errorBody[p] = "Message"
                             THEN [text |-> "server message", status |-> 0]
                             ELSE [text |-> "API error", status |-> resps[p][Len(resps[p])]]

\* C20: a successful refresh replaces only the accessToken entry, with the newly issued
\* token, and resolves with that same token for every caller awaiting it; the refreshToken,
\* userData and loginTime entries are as they were when the refresh call answered.
C20_Step ==
    \A g \in DOMAIN inflight :
        (Settles(g) /\ lastRefresh'.cause = "Ok") =>
            /\ lastRefresh'.outcome.kind = "token"
            /\ lastRefresh'.outcome.val # 0
            /\ lastRefresh'.outcome.val # cookies.accessToken
            /\ lastRefresh'.atSettle.accessToken = lastRefresh'.outcome.val
            /\ lastRefresh'.atSettle.refreshToken = cookies.refreshToken
            /\ lastRefresh'.atSettle.userData = cookies.userData
            /\ lastRefresh'.atSettle.loginTime = cookies.loginTime
            /\ \A p \in Range(inflight[g]) : got'[p] = lastRefresh'.outcome
C20_RefreshFrame == [][C20_Step]_vars
C20_Witness ==
    /\ lastRefresh.cause = "Ok"
    /\ got[1] = TokenOutcome(2)
    /\ pc[1] = "refetch"
    /\ cookies = [accessToken |-> 2, refreshToken |-> FALSE, userData |-> FALSE,
                  loginTime |-> FALSE]

\* C21: the retries of one logical request are strictly sequential: the request never has
\* two of its own network calls outstanding, and the call of attempt k+1 is issued only
\* when every earlier call has been answered, the last of them with a status >= 500, and
\* the backoff delay after attempt k has run.
C21_Outstanding(p) == calls[p] - Len(resps[p])
C21_Step ==
    \A p \in Procs :
        retries'[p] # retries[p] =>
            /\ retries'[p] = retries[p] + 1
            /\ pc[p] = "backoff"
            /\ C21_Outstanding(p) = 0
            /\ resps[p][Len(resps[p])] >= 500
            /\ Len(delays[p]) = retries[p] + 1
            /\ calls'[p] = calls[p] + 1
            /\ pc'[p] = "fetch"
C21_Sequential ==
    /\ [](\A p \in Procs :
            /\ C21_Outstanding(p) \in {0, 1}
            /\ pc[p] \in {"fetch", "refetch"} => C21_Outstanding(p) = 1
            /\ pc[p] \in {"refresh", "backoff", "body"} => C21_Outstanding(p) = 0)
    /\ [][C21_Step]_vars
C21_Witness ==
    /\ pc[1] = "fetch"
    /\ retries[1] = 2
    /\ calls[1] = 4
    /\ resps[1] = <<401, 500, 503>>

\* C22: a fetchWithAuth call that never receives a 401 - whether it succeeds, fails with an
\* API error, is retried on 5xx, fails on the network or times out - leaves the four
\* session entries and the refreshInProgress marker as they are, calls no refresh and
\* triggers no navigation.
C22_No401(seq) == \A i \in DOMAIN seq : seq[i] # 401
C22_Step ==
    C22_No401(resps'[1]) =>
        /\ cookies' = cookies
        /\ refreshVars' = refreshVars
        /\ location' = location
        /\ refreshCalls' = refreshCalls
C22_Frame ==
    /\ [](C22_No401(resps[1]) =>
            (refreshSeq = 0 /\ refreshInProgress = 0 /\ location = "app"
               /\ cookies \in InitialSessions))
    /\ [][C22_Step]_vars
C22_Witness ==
    /\ resps[1] = <<500, 503>>
    /\ result[1] = "TimedOut"
    /\ cookies = FullSession
    /\ location = "app"

\* C23: once logout() has cleared the session (and until the next login() sets a user
\* again) the accessToken entry is absent: no request or refresh that was in flight at the
\* time of the logout re-creates it when it completes.
C23_StaysLoggedOut == ~user => cookies.accessToken = 0

\* C24: every fetchWithAuth call eventually settles, given that each network call answers
\* or is aborted by its timer: timers bound every awaited step, the wait on a refresh and
\* the reading of the response body included, and the retries end.
C24_Settles == (pc[1] # "idle") ~> (pc[1] = "done")

\* C25: the route guard never loops: for every path and cookie state, the target of the
\* middleware's redirect, requested with the same cookies, is a path the middleware lets
\* pass.
C25_Served(path, token) == IF Matcher(path) THEN middleware(path, token) ELSE PassThrough
C25_Settled(path, token) ==
    LET first == C25_Served(path, token)
    IN first.kind = "redirect" => C25_Served(first.to, token).kind = "next"
C25_NoRedirectLoop ==
    /\ page.response.kind = "redirect" =>
          /\ page.response = C25_Served(page.path, page.token)
          /\ C25_Served(page.response.to, page.token).kind = "next"
    /\ \A path \in Paths : C25_Settled(path, cookies.accessToken)
C25_Witness ==
    /\ page.path = LoginPath
    /\ page.token # 0
    /\ page.response = Redirect(DashboardPath)
    /\ C25_Served(DashboardPath, page.token) = PassThrough

\* C26: a user with a stored session (userData cookie) who opens the branches, tests or
\* employees page is never sent to /login by the page's authorization effect: while the
\* userData cookie is there, no run of the effect calls router.push('/login').
C26_SentToLogin == view'.pushed = Append(view.pushed, LoginPath)
C26_StoredSessionStays == [][cookies.userData => ~C26_SentToLogin]_vars

\* C27: login() called with a response that lacks the access token or the user profile
\* throws (the only error login throws is 'Invalid login response from server') and leaves
\* the four session entries and the user state as they were.
C27_Lacks(userData) == userData.isNull \/ ~userData.access_token \/ ~userData.user
C27_Step ==
    \A userData \in LoginResponses :
        (Login(userData) /\ C27_Lacks(userData)) =>
            /\ logins' = Append(logins, FALSE)
            /\ cookies' = cookies
            /\ user' = user
C27_InvalidLoginThrows == [][C27_Step]_vars
C27_Witness ==
    /\ logins = <<TRUE, FALSE>>
    /\ cookies = FullSession
    /\ user

\* C28: canEditEmployee, and canDeleteEmployee which equals it, never allows a user to edit
\* or delete themself, an Organization Head, or an employee of equal or higher rank in the
\* order Organization Head > Organization Partner > Branch Admin > {Receptionist, Reporting
\* Doctor, Home testing person}; a user of one of the three lowest types can edit nobody.
C28_Rank(type) ==
    CASE type = "Organization Head" -> 3
      [] type = "Organization Partner" -> 2
      [] type = "Branch Admin" -> 1
      [] OTHER -> 0
C28_NoEscalation ==
    /\ staff.canDelete = staff.canEdit
    /\ staff.canEdit =>
          /\ staff.currentUser # NoUser
          /\ staff.id # staff.currentUser.id
          /\ staff.listed # "Organization Head"
          /\ staff.listed \in EmployeeTypes =>
                C28_Rank(staff.listed) < C28_Rank(staff.currentUser.type)
          /\ C28_Rank(staff.currentUser.type) > 0
C28_Witness ==
    /\ staff.rendered
    /\ staff.canEdit
    /\ staff.canDelete
    /\ staff.currentUser = [id |-> 1, type |-> "Organization Partner"]
    /\ staff.id = 2
    /\ staff.listed = "Branch Admin"

\* C29: the employee type mappings round-trip: a display name of EMPLOYEE_TYPE_MAPPING that
\* createEmployee or updateEmployee sent as its backend key comes back from getEmployees as
\* the same display name, and a type found in neither table passes through both directions
\* unchanged.
C29_InNeither(type) ==
    type \notin DOMAIN EMPLOYEE_TYPE_MAPPING /\ type \notin DOMAIN BACKEND_TYPE_MAPPING
C29_Step ==
    GetEmployees =>
        /\ C29_InNeither(staff.server) => staff'.listed = staff.server
        /\ staff.form # NoType =>
              /\ staff.form \in DOMAIN EMPLOYEE_TYPE_MAPPING => staff'.listed = staff.form
              /\ C29_InNeither(staff.form) =>
                    staff.body = staff.form /\ staff'.listed = staff.form
C30_LatestShown ==
    (/\ entryList.outstanding = {}
     /\ entryList.issued.seq > 0
     /\ entryList.issued.seq \notin entryList.failed) =>
        /\ entryList.shown.filters = entryList.filters
        /\ entryList.shown.filters = entryList.issued.filters
        /\ entryList.shown.page = entryList.issued.page
        /\ entryList.currentPage = entryList.issued.page

====
